---- MODULE Spec2Model ----
(***************************************************************************)
(* Model of vector.h: RawMemory<T> (owner of an untyped block) and         *)
(* Vector<T> (size_ plus a RawMemory<T>), with the element type T's        *)
(* constructors and assignments as fallible steps.                         *)
(*                                                                         *)
(* A block of the heap is a sequence of slots; a slot either holds no      *)
(* object (Raw) or holds a live T with a value.  Indices of the code are   *)
(* 0-based; slot i of block b is heap[b][i + 1].                           *)
(***************************************************************************)
EXTENDS Integers, Sequences, FiniteSets, TLC

\* Largest capacity an allocation may ask for, in a program of one vector
\* and in a program of two.
MaxCap == 4

MaxPairCap == 2

\* Largest capacity in a program of RawMemory objects alone.
MaxRawCap == 2

\* The two Vector<T> objects of the program.
Vecs == {1, 2}

\* The RawMemory<T> objects of a program that uses the class by itself.
Raws == {1, 2}

\* Addresses of raw blocks.  A vector holds at most one and a call holds at
\* most one more (new_data, or rhs_copy's data_).
Blocks == {1, 2, 3}

\* buffer_ = nullptr
NullPtr == 0

\* A slot of raw memory in which no T lives.
Raw == -1

\* The values a T can hold.
Values == {0, 1}

\* T(): the value of a value-initialised element.
DefaultValue == 0

\* The value an element is left with after a stealing move (T(T&&) of a type
\* that owns a resource leaves its source empty).
MovedFrom == 0

\* The element types the template is instantiated with.
\*   nothrow_move: std::is_nothrow_move_constructible_v<T>
\*   copyable:     std::is_copy_constructible_v<T>
\*   steals:       the move operations leave the source MovedFrom
Types ==
    { [name |-> "String",   nothrow_move |-> TRUE,  copyable |-> TRUE,  steals |-> TRUE],
      [name |-> "Throwing", nothrow_move |-> FALSE, copyable |-> TRUE,  steals |-> TRUE],
      [name |-> "MoveOnly", nothrow_move |-> FALSE, copyable |-> FALSE, steals |-> TRUE] }

VARIABLES
    T,      \* the element type of this run
    limit,  \* the largest capacity an allocation of this run may ask for
    heap,   \* heap[b]: the slots of block b; <<>> when b is not allocated
    vecs,   \* vecs[v] = [size |-> size_, data |-> [buffer |-> buffer_, capacity |-> capacity_]]
    alive,  \* alive[v]: the Vector object v is constructed
    pushed, \* the values appended to vector 1, while it has only been appended to
    raws,   \* raws[r] = [alive |-> r is constructed, data |-> [buffer |-> ..., capacity |-> ...]]
    last    \* what the last call was and how it ended

vars == <<T, limit, heap, vecs, alive, pushed, raws, last>>

----------------------------------------------------------------------------
(* The state of a call in progress: the heap and the vectors as the call    *)
(* has left them so far, the countdown k to the step that throws, whether   *)
(* an exception is in flight (exc) and from what (why), the number of       *)
(* operator new calls (allocs) and of operator delete calls on a block     *)
(* (frees), the number of live elements whose block was released under     *)
(* them (lost), whether the call asked for more memory   *)
(* than the model's bounds give (over), the RawMemory just built (new) and  *)
(* the index the call returns (ret).                                        *)

EmptyRaw == [buffer |-> NullPtr, capacity |-> 0]

EmptyVector == [size |-> 0, data |-> EmptyRaw]

BeginAt(h, vs, f) ==
    [heap |-> h, vecs |-> vs, k |-> f, exc |-> FALSE, why |-> "none",
     allocs |-> 0, frees |-> 0, lost |-> 0, over |-> FALSE, new |-> EmptyRaw, ret |-> 0]

Begin(f) == BeginAt(heap, vecs, f)

Fails(m, can) == can /\ m.k = 1

Step(m, can) == IF can /\ m.k > 1 THEN [m EXCEPT !.k = @ - 1] ELSE m

Raise(m, w) == [m EXCEPT !.exc = TRUE, !.why = w, !.k = 0]

Get(m, b, i) == m.heap[b][i + 1]

Put(m, b, i, x) == [m EXCEPT !.heap[b][i + 1] = x]

Live(x) == x # Raw

----------------------------------------------------------------------------
(* RawMemory<T> *)

\* RawMemory::Allocate: operator new(n * sizeof(T)), or nullptr for n = 0.
\* The block is the free address of lowest number.
Allocate(m, n) ==
    IF n = 0 THEN [m EXCEPT !.new = EmptyRaw]
    ELSE IF Fails(m, TRUE) THEN Raise([m EXCEPT !.allocs = @ + 1], "alloc")
    ELSE LET b == CHOOSE c \in Blocks :
                      /\ m.heap[c] = <<>>
                      /\ \A d \in Blocks : m.heap[d] = <<>> => c <= d
             m1 == Step(m, TRUE)
         IN [m1 EXCEPT !.heap[b] = [i \in 1..n |-> Raw],
                       !.allocs = @ + 1,
                       !.over = @ \/ n > limit,
                       !.new = [buffer |-> b, capacity |-> n]]

\* RawMemory::Deallocate: operator delete(buf); deleting nullptr does nothing.
\* Elements still alive in the block are gone without their destructor.
Deallocate(m, buf) ==
    IF buf = NullPtr THEN m
    ELSE [m EXCEPT !.heap[buf] = <<>>,
                   !.frees = @ + 1,
                   !.lost = @ + Cardinality({i \in 1..Len(m.heap[buf]) : Live(m.heap[buf][i])})]

\* RawMemoryCtor with the bug of rounding the request up by one slot.
RawMemoryCtorOneMore(m, capacity) ==
    LET m1 == Allocate(m, capacity + 1)
    IN IF m1.exc THEN m1 ELSE [m1 EXCEPT !.new.capacity = capacity + 1]

\* RawMemory::RawMemory(size_t capacity): the result is m.new.
RawMemoryCtor(m, capacity) ==
    LET m1 == Allocate(m, capacity)
    IN IF m1.exc THEN m1 ELSE [m1 EXCEPT !.new.capacity = capacity]

\* RawMemoryDtor with the bug of releasing nothing.
RawMemoryDtorLeaks(m, raw) == m

\* RawMemory::~RawMemory
RawMemoryDtor(m, raw) == Deallocate(m, raw.buffer)

\* RawMemory::RawMemory(RawMemory&& other): buffer_(std::move(other.buffer_)),
\* capacity_(std::move(other.capacity_)).  std::move of a pointer or of a
\* size_t copies it: the result is the new object and other as the call
\* leaves it.
RawMemoryMoveCtor(other) == [self |-> other, other |-> other]

\* RawMemory::operator=(RawMemory&& rhs): buffer_ = std::move(rhs.buffer_);
\* capacity_ = std::move(rhs.capacity_).  Nothing is released.
RawMemoryMoveAssign(self, rhs) == [self |-> rhs, rhs |-> rhs]

----------------------------------------------------------------------------
(* The element type's operations and the <memory>/<algorithm> loops over   *)
(* them.                                                                   *)

\* new (b + i) T(args...): any constructor of T may throw.
ConstructAt(m, b, i, x) ==
    IF Fails(m, TRUE) THEN Raise(m, "elem") ELSE Put(Step(m, TRUE), b, i, x)

\* The argument of PushBack, Insert, EmplaceBack and Emplace: a value of the
\* caller's (ByValue), or a reference to the element of index i of the vector
\* the call is made on (ByRef); junk is what a read of a destroyed element
\* yields, if the reference is read when its element is destroyed.
ByValue(x) == [ref |-> FALSE, at |-> x, junk |-> x]

ByRef(i, u) == [ref |-> TRUE, at |-> i, junk |-> u]

\* new (b + i) T(std::forward<Args>(args)...): a reference is read when the
\* constructor runs, from the block the vector has at that time.
ConstructFrom(m, v, b, i, x) ==
    LET seen == IF x.ref THEN Get(m, m.vecs[v].data.buffer, x.at) ELSE x.at
    IN ConstructAt(m, b, i, IF Live(seen) THEN seen ELSE x.junk)

\* CopyElem with the bug of emptying its source, as a move does.
CopyElemSteals(m, sb, si, db, di) ==
    IF Fails(m, TRUE) THEN Raise(m, "elem")
    ELSE Put(Put(Step(m, TRUE), db, di, Get(m, sb, si)), sb, si, MovedFrom)

\* T(const T&) into a raw slot, or T::operator=(const T&) onto a live one.
CopyElem(m, sb, si, db, di) ==
    IF Fails(m, TRUE) THEN Raise(m, "elem")
    ELSE Put(Step(m, TRUE), db, di, Get(m, sb, si))

\* MoveElem with the bug of reading the source after it was emptied.
MoveElemLosesValue(m, sb, si, db, di) ==
    IF Fails(m, ~T.nothrow_move) THEN Raise(m, "elem")
    ELSE Put(Put(Step(m, ~T.nothrow_move), sb, si, MovedFrom), db, di, MovedFrom)

\* T(T&&) into a raw slot, or T::operator=(T&&) onto a live one: the target
\* takes the source's value and a stealing type leaves the source MovedFrom.
MoveElem(m, sb, si, db, di) ==
    IF Fails(m, ~T.nothrow_move) THEN Raise(m, "elem")
    ELSE LET m1 == Put(Step(m, ~T.nothrow_move), db, di, Get(m, sb, si))
         IN IF T.steals /\ <<sb, si>> # <<db, di>> THEN Put(m1, sb, si, MovedFrom) ELSE m1

\* DestroyN with the bug of stopping one element short.
RECURSIVE DestroyNButLast(_, _, _, _)
DestroyNButLast(m, b, i, n) ==
    IF n <= 1 THEN m ELSE DestroyNButLast(Put(m, b, i, Raw), b, i + 1, n - 1)

\* std::destroy_n(b + i, n)
RECURSIVE DestroyN(_, _, _, _)
DestroyN(m, b, i, n) ==
    IF n = 0 THEN m ELSE DestroyN(Put(m, b, i, Raw), b, i + 1, n - 1)

\* std::uninitialized_copy_n(sb + si, n, db + di): on a throw the copies made
\* so far are destroyed.
RECURSIVE UninitCopyFrom(_, _, _, _, _, _, _)
UninitCopyFrom(m, sb, si, n, db, di, j) ==
    IF j = n THEN m
    ELSE LET m1 == CopyElem(m, sb, si + j, db, di + j)
         IN IF m1.exc THEN DestroyN(m1, db, di, j)
            ELSE UninitCopyFrom(m1, sb, si, n, db, di, j + 1)

UninitializedCopyN(m, sb, si, n, db, di) == UninitCopyFrom(m, sb, si, n, db, di, 0)

\* std::uninitialized_move_n(sb + si, n, db + di): on a throw the elements
\* built so far are destroyed; their sources stay moved-from.
RECURSIVE UninitMoveFrom(_, _, _, _, _, _, _)
UninitMoveFrom(m, sb, si, n, db, di, j) ==
    IF j = n THEN m
    ELSE LET m1 == MoveElem(m, sb, si + j, db, di + j)
         IN IF m1.exc THEN DestroyN(m1, db, di, j)
            ELSE UninitMoveFrom(m1, sb, si, n, db, di, j + 1)

UninitializedMoveN(m, sb, si, n, db, di) == UninitMoveFrom(m, sb, si, n, db, di, 0)

\* std::uninitialized_value_construct_n(b + i, n)
RECURSIVE UninitValueFrom(_, _, _, _, _)
UninitValueFrom(m, b, i, n, j) ==
    IF j = n THEN m
    ELSE LET m1 == ConstructAt(m, b, i + j, DefaultValue)
         IN IF m1.exc THEN DestroyN(m1, b, i, j)
            ELSE UninitValueFrom(m1, b, i, n, j + 1)

UninitializedValueConstructN(m, b, i, n) == UninitValueFrom(m, b, i, n, 0)

\* std::copy(sb + first, sb + last, db + di): copy-assignment, front to back.
RECURSIVE StdCopy(_, _, _, _, _, _)
StdCopy(m, sb, first, lst, db, di) ==
    IF first >= lst \/ m.exc THEN m
    ELSE StdCopy(CopyElem(m, sb, first, db, di), sb, first + 1, lst, db, di + 1)

\* StdMove with the bug of an empty range: nothing is shifted.
StdMoveNothing(m, b, first, lst, di) == m

\* std::move(b + first, b + last, b + di): move-assignment, front to back.
RECURSIVE StdMove(_, _, _, _, _)
StdMove(m, b, first, lst, di) ==
    IF first >= lst \/ m.exc THEN m
    ELSE StdMove(MoveElem(m, b, first, b, di), b, first + 1, lst, di + 1)

\* std::move_backward(b + first, b + last, b + dlast): move-assignment, back
\* to front: *(--dlast) = std::move(*(--last)).
RECURSIVE StdMoveBackward(_, _, _, _, _)
StdMoveBackward(m, b, first, lst, dlast) ==
    IF first >= lst \/ m.exc THEN m
    ELSE StdMoveBackward(MoveElem(m, b, lst - 1, b, dlast - 1), b, first, lst - 1, dlast - 1)

\* UsesMove with the bug of moving whatever T's move may do.
UsesMoveAlways == TRUE

\* The migration of Reserve, EmplaceBack and Emplace: move when T's move
\* cannot throw or T cannot be copied, copy otherwise.
UsesMove == T.nothrow_move \/ ~T.copyable

----------------------------------------------------------------------------
(* Vector<T> *)

\* RawSwap with the bug of exchanging nothing.
RawSwapNothing(x, y) == [a |-> x, b |-> y]

\* RawMemory::Swap: exchanges buffer_ and capacity_.
RawSwap(x, y) == [a |-> y, b |-> x]

\* VectorCopyCtor with the bug of a member-wise copy: the copy shares the block.
VectorCopyCtorShallow(m, other) == [m EXCEPT !.new = other.data]

\* Vector::Vector(const Vector& other): the result is size_ = other.size_ and
\* data_ = m.new.  If a copy throws, the member data_ releases its block.
VectorCopyCtor(m, other) ==
    LET m1 == RawMemoryCtor(m, other.size)
    IN IF m1.exc THEN m1
       ELSE LET m2 == UninitializedCopyN(m1, other.data.buffer, 0, other.size, m1.new.buffer, 0)
            IN IF m2.exc THEN RawMemoryDtor(m2, m1.new) ELSE m2

\* Vector::Vector(size_t size)
VectorSizedCtor(m, size) ==
    LET m1 == RawMemoryCtor(m, size)
    IN IF m1.exc THEN m1
       ELSE LET m2 == UninitializedValueConstructN(m1, m1.new.buffer, 0, size)
            IN IF m2.exc THEN RawMemoryDtor(m2, m1.new) ELSE m2

\* Vector::~Vector, then the destructor of the member data_.
VectorDtor(m, vec) ==
    RawMemoryDtor(DestroyN(m, vec.data.buffer, 0, vec.size), vec.data)

\* Swap with the bug of leaving size_ where it was.
SwapDataOnly(m, v, w) ==
    LET d == RawSwap(m.vecs[v].data, m.vecs[w].data)
        m1 == [m EXCEPT !.vecs[v].data = d.a]
    IN [m1 EXCEPT !.vecs[w].data = d.b]

\* Vector::Swap
Swap(m, v, w) ==
    LET d == RawSwap(m.vecs[v].data, m.vecs[w].data)
        sv == m.vecs[v].size
        sw == m.vecs[w].size
        m1 == [m EXCEPT !.vecs[v].data = d.a]
        m2 == [m1 EXCEPT !.vecs[w].data = d.b]
        m3 == [m2 EXCEPT !.vecs[v].size = sw]
    IN [m3 EXCEPT !.vecs[w].size = sv]

\* Vector::operator=(Vector&& rhs)
MoveAssign(m, v, w) == IF v # w THEN Swap(m, v, w) ELSE m

\* CopyAssign written as copy-and-swap in every case: the capacity becomes
\* rhs.size_ even when the old block was large enough.
CopyAssignBySwap(m, v, w) ==
    IF v = w THEN m
    ELSE LET m1 == VectorCopyCtor(m, m.vecs[w])
         IN IF m1.exc THEN m1
            ELSE VectorDtor([m1 EXCEPT !.vecs[v] = [size |-> m.vecs[w].size, data |-> m1.new]],
                            m.vecs[v])

\* Vector::operator=(const Vector& rhs)
CopyAssign(m, v, w) ==
    LET me == m.vecs[v]
        rhs == m.vecs[w]
        b == me.data.buffer
        rb == rhs.data.buffer
    IN IF v = w THEN m
       ELSE IF rhs.size > me.data.capacity
       THEN \* Vector rhs_copy(rhs); Swap(rhs_copy); ~rhs_copy
            LET m1 == VectorCopyCtor(m, rhs)
            IN IF m1.exc THEN m1
               ELSE LET d == RawSwap(me.data, m1.new)
                        m2 == [m1 EXCEPT !.vecs[v] = [size |-> rhs.size, data |-> d.a]]
                    IN VectorDtor(m2, [size |-> me.size, data |-> d.b])
       ELSE IF me.size > rhs.size
       THEN LET m1 == StdCopy(m, rb, 0, rhs.size, b, 0)
            IN IF m1.exc THEN m1
               ELSE LET m2 == DestroyN(m1, b, rhs.size, me.size - rhs.size)
                    IN [m2 EXCEPT !.vecs[v].size = rhs.size]
       ELSE LET m1 == StdCopy(m, rb, 0, me.size, b, 0)
            IN IF m1.exc THEN m1
               ELSE LET m2 == UninitializedCopyN(m1, rb, me.size, rhs.size - me.size, b, me.size)
                    IN IF m2.exc THEN m2 ELSE [m2 EXCEPT !.vecs[v].size = rhs.size]

\* Vector::Reserve
Reserve(m, v, new_capacity) ==
    LET d == m.vecs[v].data
        s == m.vecs[v].size
    IN IF new_capacity <= d.capacity THEN m
       ELSE LET m1 == RawMemoryCtor(m, new_capacity)
            IN IF m1.exc THEN m1
               ELSE LET nd == m1.new
                        m2 == IF UsesMove
                              THEN UninitializedMoveN(m1, d.buffer, 0, s, nd.buffer, 0)
                              ELSE UninitializedCopyN(m1, d.buffer, 0, s, nd.buffer, 0)
                    IN IF m2.exc THEN RawMemoryDtor(m2, nd)
                       ELSE LET m3 == DestroyN(m2, d.buffer, 0, s)
                                sw == RawSwap(d, nd)
                                m4 == [m3 EXCEPT !.vecs[v].data = sw.a]
                            IN RawMemoryDtor(m4, sw.b)

\* Resize with the bug of setting size_ before the Reserve that may throw.
ResizeSizeFirst(m, v, new_size) ==
    LET s == m.vecs[v].size
    IN IF new_size = s THEN m
       ELSE IF new_size < s
       THEN LET m1 == DestroyN(m, m.vecs[v].data.buffer, new_size, s - new_size)
            IN [m1 EXCEPT !.vecs[v].size = new_size]
       ELSE LET m1 == Reserve(m, v, new_size)
            IN IF m1.exc THEN [m1 EXCEPT !.vecs[v].size = new_size]
               ELSE LET m2 == UninitializedValueConstructN(m1, m1.vecs[v].data.buffer, s, new_size - s)
                    IN [m2 EXCEPT !.vecs[v].size = new_size]

\* Vector::Resize
Resize(m, v, new_size) ==
    LET s == m.vecs[v].size
    IN IF new_size = s THEN m
       ELSE IF new_size < s
       THEN LET m1 == DestroyN(m, m.vecs[v].data.buffer, new_size, s - new_size)
            IN [m1 EXCEPT !.vecs[v].size = new_size]
       ELSE LET m1 == Reserve(m, v, new_size)
            IN IF m1.exc THEN m1
               ELSE LET m2 == UninitializedValueConstructN(m1, m1.vecs[v].data.buffer, s, new_size - s)
                    IN IF m2.exc THEN m2 ELSE [m2 EXCEPT !.vecs[v].size = new_size]

\* Vector::PopBack
PopBack(m, v) ==
    LET s == m.vecs[v].size
    IN IF s > 0
       THEN LET m1 == DestroyN(m, m.vecs[v].data.buffer, s - 1, 1)
            IN [m1 EXCEPT !.vecs[v].size = s - 1]
       ELSE m

\* Vector::Erase
Erase(m, v, index) ==
    LET s == m.vecs[v].size
        m1 == StdMove(m, m.vecs[v].data.buffer, index + 1, s, index)
    IN IF m1.exc THEN m1 ELSE [PopBack(m1, v) EXCEPT !.ret = index]

\* GrownCapacity with the bug of growing by one slot.
GrownCapacityByOne(size) == size + 1

\* The capacity EmplaceBack and Emplace grow to.
GrownCapacity(size) == IF size = 0 THEN 1 ELSE size * 2

\* Vector::EmplaceBack (PushBack forwards to it)
EmplaceBack(m, v, x) ==
    LET s == m.vecs[v].size
        d == m.vecs[v].data
    IN IF s < d.capacity
       THEN LET m1 == ConstructFrom(m, v, d.buffer, s, x)
            IN IF m1.exc THEN m1 ELSE [m1 EXCEPT !.vecs[v].size = s + 1, !.ret = s]
       ELSE LET m1 == RawMemoryCtor(m, GrownCapacity(s))
            IN IF m1.exc THEN m1
               ELSE LET nd == m1.new
                        m2 == ConstructFrom(m1, v, nd.buffer, s, x)
                    IN IF m2.exc THEN RawMemoryDtor(m2, nd)
                       ELSE LET m3 == IF UsesMove
                                      THEN UninitializedMoveN(m2, d.buffer, 0, s, nd.buffer, 0)
                                      ELSE UninitializedCopyN(m2, d.buffer, 0, s, nd.buffer, 0)
                            IN IF m3.exc THEN RawMemoryDtor(m3, nd)
                               ELSE LET m4 == DestroyN(m3, d.buffer, 0, s)
                                        sw == RawSwap(d, nd)
                                        m5 == [m4 EXCEPT !.vecs[v].data = sw.a]
                                        m6 == RawMemoryDtor(m5, sw.b)
                                    IN [m6 EXCEPT !.vecs[v].size = s + 1, !.ret = s]

\* Vector::Emplace, the branch taken when size_ != Capacity()
EmplaceInPlace(m, v, index, x) ==
    LET s == m.vecs[v].size
        b == m.vecs[v].data.buffer
        shifted ==
            IF s # 0
            THEN LET m1 == MoveElem(m, b, s - 1, b, s)
                 IN IF m1.exc THEN m1
                    ELSE LET m2 == StdMoveBackward(m1, b, index, s, s + 1)
                         IN IF m2.exc THEN DestroyN(m2, b, s, 1)
                            ELSE DestroyN(m2, b, index, 1)
            ELSE m
    IN IF shifted.exc THEN shifted
       ELSE LET m3 == ConstructFrom(shifted, v, b, index, x)
            IN IF m3.exc THEN m3 ELSE [m3 EXCEPT !.vecs[v].size = s + 1, !.ret = index]

\* Vector::Emplace, the branch taken when size_ == Capacity()
EmplaceGrow(m, v, index, x) ==
    LET s == m.vecs[v].size
        d == m.vecs[v].data
        m1 == RawMemoryCtor(m, GrownCapacity(s))
    IN IF m1.exc THEN m1
       ELSE LET nd == m1.new
                m2 == ConstructFrom(m1, v, nd.buffer, index, x)
            IN IF m2.exc THEN RawMemoryDtor(m2, nd)
               ELSE LET m3 ==
                        IF UsesMove
                        THEN LET p == UninitializedMoveN(m2, d.buffer, 0, index, nd.buffer, 0)
                             IN IF p.exc THEN p
                                ELSE UninitializedMoveN(p, d.buffer, index, s - index, nd.buffer, index + 1)
                        ELSE LET p == UninitializedCopyN(m2, d.buffer, 0, index, nd.buffer, 0)
                                 q == IF p.exc THEN p
                                      ELSE UninitializedCopyN(p, d.buffer, index, s - index, nd.buffer, index + 1)
                             IN IF q.exc THEN DestroyN(q, nd.buffer, index, 1) ELSE q
                    IN IF m3.exc THEN RawMemoryDtor(m3, nd)
                       ELSE LET m4 == DestroyN(m3, d.buffer, 0, s)
                                sw == RawSwap(d, nd)
                                m5 == [m4 EXCEPT !.vecs[v].data = sw.a]
                                m6 == RawMemoryDtor(m5, sw.b)
                            IN [m6 EXCEPT !.vecs[v].size = s + 1, !.ret = index]

\* Vector::Emplace (Insert forwards to it)
Emplace(m, v, index, x) ==
    IF m.vecs[v].size # m.vecs[v].data.capacity
    THEN EmplaceInPlace(m, v, index, x)
    ELSE EmplaceGrow(m, v, index, x)

----------------------------------------------------------------------------
(* The calls a program makes.  A call acts on constructed vectors whose    *)
(* elements are all alive: a member function run on a vector that holds a  *)
(* destroyed element reads or destroys a dead object, and what it does     *)
(* then is not defined.                                                    *)

\* A call that works on k elements runs at most k + 2 fallible steps: one
\* allocation, one construction from the caller's value and k transfers or
\* constructions of elements.  Faults(k) are the choices of the step that
\* throws, 0 for none.
Faults(k) == 0..(k + 2)

\* pushed when vector 1 has seen a call other than a successful append since
\* it was default-constructed.
NoPushes == <<Raw>>

Slots(h, vec) == IF vec.data.buffer = NullPtr THEN <<>> ELSE h[vec.data.buffer]

\* size_ <= capacity_, a live T in every slot of [0, size_), none in
\* [size_, capacity_), and data_ describing its block.
WellFormedIn(h, vec) ==
    /\ vec.size <= vec.data.capacity
    /\ Len(Slots(h, vec)) = vec.data.capacity
    /\ \A i \in 1..vec.data.capacity : Live(Slots(h, vec)[i]) <=> i <= vec.size

WellFormed(v) == WellFormedIn(heap, vecs[v])

Usable(v) == alive[v] /\ WellFormed(v)

\* The sequence of element values a reader of v[0], ..., v[Size() - 1] sees.
\* A read past the block finds no object.
ContentsIn(h, vec) ==
    [i \in 1..vec.size |-> IF i <= Len(Slots(h, vec)) THEN Slots(h, vec)[i] ELSE Raw]

Contents(v) == ContentsIn(heap, vecs[v])

\* The blocks operator new has given out and operator delete has not taken
\* back, and the blocks that are the storage of a constructed vector.
Allocated(h) == {b \in Blocks : h[b] # <<>>}

Owned(vs, al) == {vs[v].data.buffer : v \in {u \in Vecs : al[u]}} \ {NullPtr}

\* No call has been made, or the caller has taken the last call's result.
NoCall ==
    [op |-> "none", v |-> 0, outcome |-> "ok", why |-> "none",
     arg |-> 0, val |-> 0, ret |-> 0, allocs |-> 0, frees |-> 0, lost |-> 0]

Ready == last = NoCall

\* The call ends: its effects become the program's state, and last tells the
\* caller what the call was, how it ended, and, if it returned, the index,
\* count or other vector it was given (arg), the value it was given (val)
\* and the index it returned (ret); and its allocations, releases and lost
\* elements.
Finish(r, op, v, arg, val) ==
    /\ r.k = 0
    /\ ~r.over
    /\ heap' = r.heap
    /\ vecs' = r.vecs
    /\ last' = [op |-> op, v |-> v,
                outcome |-> IF r.exc THEN "throw" ELSE "ok",
                why |-> r.why,
                arg |-> IF r.exc THEN 0 ELSE arg,
                val |-> IF r.exc THEN 0 ELSE val,
                ret |-> IF r.exc THEN 0 ELSE r.ret,
                allocs |-> r.allocs,
                frees |-> r.frees,
                lost |-> r.lost]
    /\ UNCHANGED <<T, limit, raws>>

Forget(S) == pushed' = IF 1 \in S THEN NoPushes ELSE pushed

\* Vector() = default
DefaultConstruct(v) ==
    /\ Ready
    /\ ~alive[v]
    /\ Finish([Begin(0) EXCEPT !.vecs[v] = EmptyVector], "Vector", v, 0, 0)
    /\ alive' = [alive EXCEPT ![v] = TRUE]
    /\ pushed' = IF v = 1 THEN <<>> ELSE pushed

\* Vector(size_t size)
SizedConstruct(v, n, f) ==
    /\ Ready
    /\ ~alive[v]
    /\ LET r == VectorSizedCtor(Begin(f), n)
       IN /\ Finish(IF r.exc THEN r ELSE [r EXCEPT !.vecs[v] = [size |-> n, data |-> r.new]],
                    "VectorSized", v, n, 0)
          /\ alive' = [alive EXCEPT ![v] = ~r.exc]
    /\ Forget({v})

\* Vector(const Vector& other)
CopyConstruct(v, w, f) ==
    /\ Ready
    /\ ~alive[v] /\ Usable(w) /\ T.copyable
    /\ LET r == VectorCopyCtor(Begin(f), vecs[w])
       IN /\ Finish(IF r.exc THEN r
                    ELSE [r EXCEPT !.vecs[v] = [size |-> vecs[w].size, data |-> r.new]],
                    "VectorCopy", v, w, 0)
          /\ alive' = [alive EXCEPT ![v] = ~r.exc]
    /\ Forget({v})

\* Vector(Vector&& other): the members take their defaults, then Swap(other).
MoveConstruct(v, w) ==
    /\ Ready
    /\ ~alive[v] /\ Usable(w)
    /\ Finish(Swap([Begin(0) EXCEPT !.vecs[v] = EmptyVector], v, w), "VectorMove", v, w, 0)
    /\ alive' = [alive EXCEPT ![v] = TRUE]
    /\ Forget({v, w})

\* ~Vector()
Destroy(v) ==
    /\ Ready
    /\ Usable(v)
    /\ Finish([VectorDtor(Begin(0), vecs[v]) EXCEPT !.vecs[v] = EmptyVector], "~Vector", v, 0, 0)
    /\ alive' = [alive EXCEPT ![v] = FALSE]
    /\ Forget({v})

\* a = b
CopyAssignCall(v, w, f) ==
    /\ Ready
    /\ Usable(v) /\ Usable(w) /\ T.copyable
    /\ Finish(CopyAssign(Begin(f), v, w), "CopyAssign", v, w, 0)
    /\ UNCHANGED alive
    /\ Forget({v})

\* a = std::move(b)
MoveAssignCall(v, w) ==
    /\ Ready
    /\ Usable(v) /\ Usable(w)
    /\ Finish(MoveAssign(Begin(0), v, w), "MoveAssign", v, w, 0)
    /\ UNCHANGED alive
    /\ Forget({v, w})

\* a.Swap(b)
SwapCall(v, w) ==
    /\ Ready
    /\ Usable(v) /\ Usable(w)
    /\ Finish(Swap(Begin(0), v, w), "Swap", v, w, 0)
    /\ UNCHANGED alive
    /\ Forget({v, w})

\* a.Reserve(n)
ReserveCall(v, n, f) ==
    /\ Ready
    /\ Usable(v)
    /\ Finish(Reserve(Begin(f), v, n), "Reserve", v, n, 0)
    /\ UNCHANGED alive
    /\ Forget({v})

\* a.Resize(n)
ResizeCall(v, n, f) ==
    /\ Ready
    /\ Usable(v)
    /\ Finish(Resize(Begin(f), v, n), "Resize", v, n, 0)
    /\ UNCHANGED alive
    /\ Forget({v})

\* a.PushBack(x), a.EmplaceBack(x)
PushBack(v, x, f) ==
    /\ Ready
    /\ Usable(v)
    /\ LET r == EmplaceBack(Begin(f), v, ByValue(x))
       IN /\ Finish(r, "PushBack", v, 0, x)
          /\ pushed' = IF v # 1 THEN pushed
                        ELSE IF r.exc \/ pushed = NoPushes THEN NoPushes
                        ELSE Append(pushed, x)
    /\ UNCHANGED alive

\* a.Insert(a.begin() + p, x), a.Emplace(a.begin() + p, x): p in [0, size_]
Insert(v, p, x, f) ==
    /\ Ready
    /\ Usable(v)
    /\ p <= vecs[v].size
    /\ LET r == Emplace(Begin(f), v, p, ByValue(x))
       IN Finish(r, "Insert", v, p, x)
    /\ UNCHANGED alive
    /\ Forget({v})

\* a.PushBack(a[i]): the const T& overload, given an element of a itself.
\* last.val is i.
PushBackRef(v, i, u, f) ==
    /\ Ready
    /\ Usable(v) /\ T.copyable
    /\ i < vecs[v].size
    /\ Finish(EmplaceBack(Begin(f), v, ByRef(i, u)), "PushBackRef", v, 0, i)
    /\ UNCHANGED alive
    /\ Forget({v})

\* a.Insert(a.begin() + p, a[i]): the const T& overload, given an element of
\* a itself.  last.val is i.
InsertRef(v, p, i, u, f) ==
    /\ Ready
    /\ Usable(v) /\ T.copyable
    /\ p <= vecs[v].size
    /\ i < vecs[v].size
    /\ Finish(Emplace(Begin(f), v, p, ByRef(i, u)), "InsertRef", v, p, i)
    /\ UNCHANGED alive
    /\ Forget({v})

\* a.Erase(a.begin() + p): p in [0, size_)
EraseCall(v, p, f) ==
    /\ Ready
    /\ Usable(v)
    /\ p < vecs[v].size
    /\ LET r == Erase(Begin(f), v, p)
       IN Finish(r, "Erase", v, p, 0)
    /\ UNCHANGED alive
    /\ Forget({v})

\* a.PopBack()
PopBackCall(v) ==
    /\ Ready
    /\ Usable(v)
    /\ Finish(PopBack(Begin(0), v), "PopBack", v, 0, 0)
    /\ UNCHANGED alive
    /\ Forget({v})

\* The caller takes the result of the last call and goes on; a program that
\* was aborted does not.
Return ==
    /\ ~Ready
    /\ last.outcome # "abort"
    /\ last' = NoCall
    /\ UNCHANGED <<T, limit, heap, vecs, alive, pushed, raws>>

\* A call on RawMemory objects ends: r is the call state and rs the objects.
RawFinish(r, rs, op, x, arg) ==
    /\ r.k = 0
    /\ ~r.over
    /\ heap' = r.heap
    /\ raws' = rs
    /\ last' = [NoCall EXCEPT !.op = op, !.v = x, !.arg = arg,
                              !.outcome = IF r.exc THEN "throw" ELSE "ok",
                              !.why = r.why, !.allocs = r.allocs, !.frees = r.frees]
    /\ UNCHANGED <<T, limit, vecs, alive, pushed>>

\* RawMemory() = default
RawDefaultConstruct(x) ==
    /\ Ready
    /\ ~raws[x].alive
    /\ RawFinish(Begin(0), [raws EXCEPT ![x] = [alive |-> TRUE, data |-> EmptyRaw]],
                 "RawMemory", x, 0)

\* RawMemory(n); the heap of the model has a free address left.
RawSizedConstruct(x, n, f) ==
    /\ Ready
    /\ ~raws[x].alive
    /\ \E b \in Blocks : heap[b] = <<>>
    /\ LET r == RawMemoryCtor(Begin(f), n)
       IN RawFinish(r, IF r.exc THEN raws
                       ELSE [raws EXCEPT ![x] = [alive |-> TRUE, data |-> r.new]],
                    "RawMemorySized", x, n)

\* RawMemory x(std::move(y))
RawMoveConstruct(x, y) ==
    /\ Ready
    /\ ~raws[x].alive /\ raws[y].alive
    /\ LET r == RawMemoryMoveCtor(raws[y].data)
       IN RawFinish(Begin(0), [raws EXCEPT ![x] = [alive |-> TRUE, data |-> r.self],
                                            ![y] = [alive |-> TRUE, data |-> r.other]],
                    "RawMemoryMove", x, y)

\* x = std::move(y)
RawMoveAssignCall(x, y) ==
    /\ Ready
    /\ raws[x].alive /\ raws[y].alive
    /\ LET r == RawMemoryMoveAssign(raws[x].data, raws[y].data)
           rs == [raws EXCEPT ![y] = [alive |-> TRUE, data |-> r.rhs]]
       IN RawFinish(Begin(0), [rs EXCEPT ![x] = [alive |-> TRUE, data |-> r.self]],
                    "RawMoveAssign", x, y)

\* x.Swap(y)
RawSwapCall(x, y) ==
    /\ Ready
    /\ raws[x].alive /\ raws[y].alive
    /\ LET d == RawSwap(raws[x].data, raws[y].data)
           rs == [raws EXCEPT ![x] = [alive |-> TRUE, data |-> d.a]]
       IN RawFinish(Begin(0), [rs EXCEPT ![y] = [alive |-> TRUE, data |-> d.b]],
                    "RawSwap", x, y)

\* ~RawMemory() of an object whose buffer_ is null or an allocated block.
RawDestroy(x) ==
    /\ Ready
    /\ raws[x].alive
    /\ raws[x].data.buffer \in Allocated(heap) \cup {NullPtr}
    /\ RawFinish(RawMemoryDtor(Begin(0), raws[x].data),
                 [raws EXCEPT ![x] = [alive |-> FALSE, data |-> EmptyRaw]],
                 "~RawMemory", x, 0)

\* ~RawMemory() of an object whose buffer_ was released already: operator
\* delete on it is undefined.  The allocator either does not notice, and the
\* heap stays as it is, or detects the second release and aborts the program.
RawDestroyDangling(x, outcome) ==
    /\ Ready
    /\ raws[x].alive
    /\ raws[x].data.buffer \notin Allocated(heap) \cup {NullPtr}
    /\ heap' = heap
    /\ raws' = [raws EXCEPT ![x] = [alive |-> FALSE, data |-> EmptyRaw]]
    /\ last' = [NoCall EXCEPT !.op = "~RawMemory", !.v = x, !.outcome = outcome, !.frees = 1]
    /\ UNCHANGED <<T, limit, vecs, alive, pushed>>

\* The calls on RawMemory objects.
RawCalls(x, y) ==
    \/ RawDefaultConstruct(x)
    \/ \E n \in 0..limit : \E f \in 0..1 : RawSizedConstruct(x, n, f)
    \/ RawMoveConstruct(x, y)
    \/ RawMoveAssignCall(x, y)
    \/ RawSwapCall(x, y)
    \/ RawDestroy(x)
    \/ \E outcome \in {"ok", "abort"} : RawDestroyDangling(x, outcome)

\* The calls on one vector.
Calls(v) ==
    \/ DefaultConstruct(v)
    \/ \E n \in 0..limit : \E f \in Faults(n) : SizedConstruct(v, n, f)
    \/ Destroy(v)
    \/ \E n \in 0..limit : \E f \in Faults(vecs[v].size) : ReserveCall(v, n, f)
    \/ \E n \in 0..limit : \E f \in Faults(n) : ResizeCall(v, n, f)
    \/ \E x \in Values : \E f \in Faults(vecs[v].size) : PushBack(v, x, f)
    \/ \E p \in 0..vecs[v].size, x \in Values : \E f \in Faults(vecs[v].size) : Insert(v, p, x, f)
    \/ \E p \in 0..vecs[v].size : \E f \in Faults(vecs[v].size) : EraseCall(v, p, f)
    \/ PopBackCall(v)

\* The calls on one vector that are given one of its own elements.
RefCalls(v) ==
    \/ \E i \in 0..vecs[v].size, u \in Values : \E f \in Faults(vecs[v].size) :
           PushBackRef(v, i, u, f)
    \/ \E p \in 0..vecs[v].size, i \in 0..vecs[v].size, u \in Values :
           \E f \in Faults(vecs[v].size) : InsertRef(v, p, i, u, f)

\* The calls that take a second vector.
PairCalls(v, w) ==
    \/ \E f \in Faults(vecs[w].size) : CopyConstruct(v, w, f)
    \/ MoveConstruct(v, w)
    \/ \E f \in Faults(vecs[w].size) : CopyAssignCall(v, w, f)
    \/ MoveAssignCall(v, w)
    \/ SwapCall(v, w)

Start ==
    /\ T \in Types
    /\ heap = [b \in Blocks |-> <<>>]
    /\ vecs = [v \in Vecs |-> EmptyVector]
    /\ pushed = <<>>
    /\ raws = [r \in Raws |-> [alive |-> FALSE, data |-> EmptyRaw]]
    /\ last = NoCall

\* A program of one vector, which may pass the vector its own elements.
Init ==
    /\ Start
    /\ limit = MaxCap
    /\ alive = [v \in Vecs |-> v = 1]

Next == Calls(1) \/ RefCalls(1) \/ Return

Spec == Init /\ [][Next]_vars

\* A program of two vectors, each given values of the caller's.
InitPair ==
    /\ Start
    /\ limit = MaxPairCap
    /\ alive = [v \in Vecs |-> TRUE]

NextPair ==
    \/ Return
    \/ \E v \in Vecs : Calls(v)
    \/ \E v \in Vecs, w \in Vecs : PairCalls(v, w)

SpecPair == InitPair /\ [][NextPair]_vars

\* A program of RawMemory objects and no vector.
InitRaw ==
    /\ Start
    /\ limit = MaxRawCap
    /\ alive = [v \in Vecs |-> FALSE]

NextRaw ==
    \/ Return
    \/ \E x \in Raws, y \in Raws : RawCalls(x, y)

SpecRaw == InitRaw /\ [][NextRaw]_vars

----------------------------------------------------------------------------
(* Properties *)

\* What a caller can observe of a vector: Size(), Capacity(), the address of
\* its storage and the values of its elements.
View(h, vec) ==
    [size |-> vec.size, capacity |-> vec.data.capacity, buffer |-> vec.data.buffer,
     elems |-> ContentsIn(h, vec)]

\* The sequence s with x put in front of its element of index p (0-based).
InsertedAt(s, p, x) == SubSeq(s, 1, p) \o <<x>> \o SubSeq(s, p + 1, Len(s))

\* The sequence s without its element of index p (0-based).
RemovedAt(s, p) == SubSeq(s, 1, p) \o SubSeq(s, p + 2, Len(s))

\* The last call was op, on a vector that had no spare capacity / had some.
WasFull(v) == vecs[v].size = vecs[v].data.capacity

\* C1: whenever a public operation has returned or thrown, every constructed
\* vector has size <= capacity, a live element in every slot of [0, size)
\* and no live element in [size, capacity).
C1_InvariantAtEveryReturn == \A v \in Vecs : alive[v] => WellFormed(v)

\* C2: after n successful appends to a default-constructed vector and no
\* other call, Size() is n and index i reads the i-th appended value.
C2_AppendsReadBack ==
    pushed # NoPushes =>
        /\ alive[1]
        /\ vecs[1].size = Len(pushed)
        /\ Contents(1) = pushed

\* C2 witness: three appends, two of them reallocating (capacity 1, 2, 4),
\* of values that differ.
C2_Witness ==
    /\ pushed = <<1, 0, 1>>
    /\ vecs[1].data.capacity = 4
    /\ last.op = "PushBack"

\* C3: an Insert that runs with spare capacity and fails in an element
\* operation leaves size, capacity and every element value as they were, with
\* no destroyed element inside [0, size).
C3_InPlaceInsertFailureRollsBack ==
    [][(/\ last'.op = "Insert"
        /\ last'.outcome = "throw"
        /\ last'.why = "elem"
        /\ ~WasFull(last'.v))
       => (/\ View(heap', vecs'[last'.v]) = View(heap, vecs[last'.v])
           /\ WellFormedIn(heap', vecs'[last'.v]))]_vars

\* C4 as stated: a reallocating PushBack or Insert that fails while building
\* the new element or migrating the old ones leaves the vector with its old
\* storage, size, capacity and element values, whatever the element type.
C4_GrowFailureRollsBackAnyType ==
    [][(/\ last'.op \in {"PushBack", "Insert"}
        /\ last'.outcome = "throw"
        /\ last'.why = "elem"
        /\ WasFull(last'.v))
       => View(heap', vecs'[last'.v]) = View(heap, vecs[last'.v])]_vars

\* C4 as amended: the same, for element types that are nothrow-move-
\* constructible or copy-constructible (the types whose migration cannot fail
\* or is done by copy).
C4_GrowFailureRollsBack ==
    [][(/\ last'.op \in {"PushBack", "Insert"}
        /\ last'.outcome = "throw"
        /\ last'.why = "elem"
        /\ WasFull(last'.v)
        /\ (T.nothrow_move \/ T.copyable))
       => (/\ View(heap', vecs'[last'.v]) = View(heap, vecs[last'.v])
           /\ WellFormedIn(heap', vecs'[last'.v]))]_vars

\* C4 witness: an Insert into a full vector of two elements, of a type whose
\* migration is by copy, failed in an element operation after allocating.
C4_Witness ==
    /\ last.op = "Insert"
    /\ last.outcome = "throw"
    /\ last.why = "elem"
    /\ last.allocs = 1
    /\ T.copyable /\ ~T.nothrow_move
    /\ vecs[1].size = 2
    /\ Contents(1) = <<1, 1>>

\* C5 as stated: after move-construction from other, and after move-
\* assignment of other into a distinct vector, other has Size() = 0, and the
\* call allocated nothing.
C5_MovedFromIsEmpty ==
    [][(/\ last'.op \in {"VectorMove", "MoveAssign"}
        /\ last'.v # last'.arg)
       => (/\ vecs'[last'.arg].size = 0
           /\ last'.allocs = 0)]_vars

\* C5 as amended: after move-construction other is empty (size 0, capacity 0,
\* no storage); after move-assignment into a distinct vector other holds the
\* size, storage and elements the destination had before the call and the
\* destination holds those of other; neither call allocates.
C5_MoveExchanges ==
    [][(/\ last'.op \in {"VectorMove", "MoveAssign"}
        /\ last'.v # last'.arg)
       => (/\ last'.allocs = 0
           /\ last'.outcome = "ok"
           /\ heap' = heap
           /\ vecs'[last'.v] = vecs[last'.arg]
           /\ vecs'[last'.arg] = IF last'.op = "VectorMove" THEN EmptyVector
                                 ELSE vecs[last'.v])]_vars

\* C5 witness: a non-empty vector was move-assigned into a non-empty one.
C5_Witness ==
    /\ last.op = "MoveAssign"
    /\ last.v # last.arg
    /\ vecs[last.v].size = 2
    /\ vecs[last.arg].size = 1

\* C6: a successful copy-construction or copy-assignment from w leaves the
\* destination with w's size and element values and leaves w as it was; two
\* constructed vectors never share storage; and a call changes no vector
\* other than the one it is made on and, for a move or a swap, its argument.
C6_CopyIsEqualAndIndependent ==
    [][/\ (/\ last'.op \in {"VectorCopy", "CopyAssign"}
           /\ last'.outcome = "ok")
          => (/\ vecs'[last'.v].size = vecs[last'.arg].size
              /\ ContentsIn(heap', vecs'[last'.v]) = Contents(last'.arg)
              /\ View(heap', vecs'[last'.arg]) = View(heap, vecs[last'.arg])
              /\ alive'[last'.v])
       /\ \A u \in Vecs, w \in Vecs :
              (u # w /\ alive'[u] /\ alive'[w] /\ vecs'[u].data.buffer = vecs'[w].data.buffer)
                  => vecs'[u].data.buffer = NullPtr
       /\ \A u \in Vecs :
              (/\ last'.op # "none"
               /\ u # last'.v
               /\ ~(last'.op \in {"VectorMove", "MoveAssign", "Swap"} /\ u = last'.arg))
                  => View(heap', vecs'[u]) = View(heap, vecs[u])]_vars

\* C6 witness: a vector of one element was copy-assigned from a distinct one
\* of two different elements, which took a new block.
C6_Witness ==
    /\ last.op = "CopyAssign"
    /\ last.outcome = "ok"
    /\ last.v # last.arg
    /\ last.allocs = 1
    /\ Contents(last.v) = <<1, 0>>

\* C7: a successful Insert(p, x) leaves s[0..p), x, s[p..size), has grown
\* Size() by one and returns index p.
C7_InsertPlacesValue ==
    [][(/\ last'.op = "Insert"
        /\ last'.outcome = "ok")
       => (/\ ContentsIn(heap', vecs'[last'.v])
                = InsertedAt(Contents(last'.v), last'.arg, last'.val)
           /\ vecs'[last'.v].size = vecs[last'.v].size + 1
           /\ last'.ret = last'.arg)]_vars

\* C8: Erase(p) right after a successful Insert(p, x) gives back the
\* sequence the vector held before the Insert.
C8_InsertEraseRoundTrip ==
    [][(/\ last'.op = "Insert"
        /\ last'.outcome = "ok")
       => LET e == Erase(BeginAt(heap', vecs', 0), last'.v, last'.arg)
          IN /\ e.vecs[last'.v].size = vecs[last'.v].size
             /\ ContentsIn(e.heap, e.vecs[last'.v]) = Contents(last'.v)]_vars

\* C9: a successful Erase(p) leaves s[0..p), s[p+1..size), has shrunk Size()
\* by one, keeps the capacity and the storage, allocates nothing and returns
\* index p.
C9_EraseRemovesOne ==
    [][(/\ last'.op = "Erase"
        /\ last'.outcome = "ok")
       => (/\ ContentsIn(heap', vecs'[last'.v]) = RemovedAt(Contents(last'.v), last'.arg)
           /\ vecs'[last'.v].size = vecs[last'.v].size - 1
           /\ vecs'[last'.v].data = vecs[last'.v].data
           /\ WellFormedIn(heap', vecs'[last'.v])
           /\ last'.allocs = 0
           /\ last'.ret = last'.arg)]_vars

\* C9 witness: the first of three elements was erased, leaving <<0, 1>>.
C9_Witness ==
    /\ last.op = "Erase"
    /\ last.outcome = "ok"
    /\ last.arg = 0
    /\ Contents(1) = <<0, 1>>
    /\ vecs[1].data.capacity = 4

\* C10 as stated: no Reserve, Resize, PushBack, Insert, Erase, PopBack,
\* copy-assignment or move-assignment makes the capacity of the vector it is
\* called on smaller.
C10_CapacityNeverShrinks ==
    [][last'.op \in {"Reserve", "Resize", "PushBack", "Insert", "Erase", "PopBack",
                     "CopyAssign", "MoveAssign"}
       => vecs'[last'.v].data.capacity >= vecs[last'.v].data.capacity]_vars

\* C10 as amended: no Reserve, Resize, PushBack, Insert, Erase, PopBack or
\* copy-assignment, returning or throwing, makes the capacity of any vector
\* smaller; a move-assignment gives the vector the capacity of its source.
C10_CapacityShrinksOnlyByMove ==
    [][/\ last'.op \in {"Reserve", "Resize", "PushBack", "Insert", "Erase", "PopBack",
                        "CopyAssign"}
          => \A u \in Vecs : vecs'[u].data.capacity >= vecs[u].data.capacity
       /\ last'.op = "MoveAssign"
          => vecs'[last'.v].data.capacity = vecs[last'.arg].data.capacity]_vars

\* C10 witness: a vector was copy-assigned from a shorter one and kept its
\* larger capacity.
C10_Witness ==
    /\ last.op = "CopyAssign"
    /\ last.outcome = "ok"
    /\ last.allocs = 0
    /\ vecs[last.v].size = 1
    /\ vecs[last.v].data.capacity = 2

\* The operations C11 names, and the capacity of a vector.
Growers == {"Reserve", "Resize", "PushBack", "Insert", "CopyAssign"}

CapacityOf(vs, v) == vs[v].data.capacity

\* C11 as stated: whenever Reserve, Resize, PushBack, Insert or copy-
\* assignment makes the capacity larger, the new capacity is at least twice
\* the old one, or is one if the old one was zero.
C11_GrowthAtLeastDoubles ==
    [][(/\ last'.op \in Growers
        /\ CapacityOf(vecs', last'.v) > CapacityOf(vecs, last'.v))
       => IF CapacityOf(vecs, last'.v) = 0
          THEN CapacityOf(vecs', last'.v) = 1
          ELSE CapacityOf(vecs', last'.v) >= 2 * CapacityOf(vecs, last'.v)]_vars

\* C11 as amended: a PushBack or Insert that makes the capacity larger makes
\* it twice the old one, or one if the old one was zero; a Reserve(n) or
\* Resize(n) that returns with a larger capacity leaves exactly n; a copy-
\* assignment that makes it larger leaves exactly the size of its source;
\* and the only call that throws with a larger capacity is Resize.
C11_GrowthIsExact ==
    [][(/\ last'.op \in Growers
        /\ CapacityOf(vecs', last'.v) > CapacityOf(vecs, last'.v))
       => CASE last'.outcome = "throw" -> last'.op = "Resize"
            [] last'.op \in {"PushBack", "Insert"} ->
                   CapacityOf(vecs', last'.v) = GrownCapacity(CapacityOf(vecs, last'.v))
            [] last'.op \in {"Reserve", "Resize"} ->
                   CapacityOf(vecs', last'.v) = last'.arg
            [] OTHER -> CapacityOf(vecs', last'.v) = vecs[last'.arg].size]_vars

\* C11 witness: a copy-assignment from a vector of two elements gave the
\* destination, whose capacity was smaller, a new block of capacity 2.
C11_Witness ==
    /\ last.op = "CopyAssign"
    /\ last.outcome = "ok"
    /\ last.allocs = 1
    /\ CapacityOf(vecs, last.v) = 2
    /\ vecs[last.arg].size = 2

\* C12: a PushBack or Insert on a vector with size < capacity allocates
\* nothing and leaves the capacity (and the storage) as it was, whether it
\* returns or throws; a PushBack or Insert that returns on a vector with
\* size = capacity leaves exactly twice the old capacity, or exactly one if
\* the old capacity was zero.
C12_InsertionGrowthPolicy ==
    [][last'.op \in {"PushBack", "Insert"}
       => IF ~WasFull(last'.v)
          THEN /\ last'.allocs = 0
               /\ vecs'[last'.v].data = vecs[last'.v].data
          ELSE last'.outcome = "ok"
               => (/\ last'.allocs = 1
                   /\ CapacityOf(vecs', last'.v)
                        = IF CapacityOf(vecs, last'.v) = 0 THEN 1
                          ELSE 2 * CapacityOf(vecs, last'.v))]_vars

\* C12 witness: an Insert at the front of a full vector of two elements
\* returned, leaving three elements in a block of capacity 4.
C12_Witness ==
    /\ last.op = "Insert"
    /\ last.outcome = "ok"
    /\ last.arg = 0
    /\ last.allocs = 1
    /\ vecs[1].size = 3
    /\ CapacityOf(vecs, 1) = 4

\* C13: Reserve(n) with n <= Capacity() returns having allocated nothing and
\* changed nothing in the vector or its block; Reserve(n) that returns with
\* n > Capacity() leaves Capacity() = n, the same Size() and the same value
\* at every index in [0, size), allocating once.
C13_ReserveExact ==
    [][(/\ last'.op = "Reserve"
        /\ last'.outcome = "ok")
       => IF last'.arg <= CapacityOf(vecs, last'.v)
          THEN /\ last'.allocs = 0
               /\ heap' = heap
               /\ vecs' = vecs
          ELSE /\ last'.allocs = 1
               /\ CapacityOf(vecs', last'.v) = last'.arg
               /\ vecs'[last'.v].size = vecs[last'.v].size
               /\ ContentsIn(heap', vecs'[last'.v]) = Contents(last'.v)
               /\ WellFormedIn(heap', vecs'[last'.v])]_vars

\* C13 witness: Reserve(4) on three elements in a smaller block returned.
C13_Witness ==
    /\ last.op = "Reserve"
    /\ last.outcome = "ok"
    /\ last.arg = 4
    /\ last.allocs = 1
    /\ Contents(1) = <<1, 0, 1>>

\* C14 as stated: for every element type whose move may throw, a Reserve
\* that fails while transferring the elements leaves the vector with its old
\* storage, size, capacity and element values.
C14_ReserveFailureKeepsAnyType ==
    [][(/\ last'.op = "Reserve"
        /\ last'.outcome = "throw"
        /\ last'.why = "elem"
        /\ ~T.nothrow_move)
       => View(heap', vecs'[last'.v]) = View(heap, vecs[last'.v])]_vars

\* C14 as amended: the same, for every copy-constructible element type whose
\* move may throw (the types Reserve migrates by copy); the new block is
\* released and no element is lost.
C14_ReserveFailureKeepsCopyable ==
    [][(/\ last'.op = "Reserve"
        /\ last'.outcome = "throw"
        /\ last'.why = "elem"
        /\ ~T.nothrow_move
        /\ T.copyable)
       => (/\ View(heap', vecs'[last'.v]) = View(heap, vecs[last'.v])
           /\ heap' = heap
           /\ last'.lost = 0)]_vars

\* C14 witness: a Reserve on <<1, 1>> of a copyable type with a throwing move
\* failed in an element transfer after allocating the new block.
C14_Witness ==
    /\ last.op = "Reserve"
    /\ last.outcome = "throw"
    /\ last.why = "elem"
    /\ last.allocs = 1
    /\ T.copyable /\ ~T.nothrow_move
    /\ Contents(1) = <<1, 1>>

\* n value-initialized elements.
Defaults(n) == [i \in 1..n |-> DefaultValue]

\* C15: Resize(m) with m < size leaves the first m elements with their
\* values, Size() = m and the capacity and storage as they were; Resize(m)
\* that returns with m > size leaves the old elements with their values,
\* followed by m - size value-initialized ones, Size() = m and
\* Capacity() >= m; Resize(m) with m = size changes nothing.
C15_ResizeContents ==
    [][(/\ last'.op = "Resize"
        /\ last'.outcome = "ok")
       => LET s == vecs[last'.v].size
              n == last'.arg
          IN CASE n < s ->
                   /\ ContentsIn(heap', vecs'[last'.v]) = SubSeq(Contents(last'.v), 1, n)
                   /\ vecs'[last'.v].size = n
                   /\ vecs'[last'.v].data = vecs[last'.v].data
                   /\ WellFormedIn(heap', vecs'[last'.v])
                   /\ last'.allocs = 0
               [] n = s ->
                   /\ heap' = heap
                   /\ vecs' = vecs
                   /\ last'.allocs = 0
               [] OTHER ->
                   /\ ContentsIn(heap', vecs'[last'.v]) = Contents(last'.v) \o Defaults(n - s)
                   /\ vecs'[last'.v].size = n
                   /\ CapacityOf(vecs', last'.v) >= n
                   /\ WellFormedIn(heap', vecs'[last'.v])]_vars

\* C15 witness: Resize(3) on <<1>> in a block of capacity 1 returned.
C15_Witness ==
    /\ last.op = "Resize"
    /\ last.outcome = "ok"
    /\ last.arg = 3
    /\ last.allocs = 1
    /\ Contents(1) = <<1, 0, 0>>

\* C16: when the allocation of the new block fails in Reserve, in a PushBack
\* or Insert that must grow, in a growing Resize or in a copy-assignment,
\* the call throws and every vector and every block is exactly as before
\* the call.
C16_AllocFailureChangesNothing ==
    [][(/\ last'.op \in Growers
        /\ last'.why = "alloc")
       => (/\ last'.outcome = "throw"
           /\ heap' = heap
           /\ vecs' = vecs
           /\ alive' = alive
           /\ last'.lost = 0)]_vars

\* C16 witness: the allocation failed in a copy-assignment from a vector of
\* two elements to one that holds <<1>> in a block too small for them.
C16_Witness ==
    /\ last.op = "CopyAssign"
    /\ last.why = "alloc"
    /\ last.allocs = 1
    /\ Contents(last.v) = <<1>>
    /\ CapacityOf(vecs, last.v) = 1
    /\ \E w \in Vecs : alive[w] /\ vecs[w].size = 2

\* C17: after every call, returning or throwing, the allocated blocks are
\* exactly the blocks of the constructed vectors (none leaked, none released
\* while in use), each the block of one vector and of the capacity it
\* records; the call released as many blocks as it allocated, less the
\* growth in allocated blocks (none released twice); and a destroyed
\* vector's block is released.
C17_BlocksReleasedOnce ==
    [][last'.op # "none"
       => (/\ Allocated(heap') = Owned(vecs', alive')
           /\ \A u \in Vecs, w \in Vecs :
                  (u # w /\ alive'[u] /\ alive'[w]
                         /\ vecs'[u].data.buffer = vecs'[w].data.buffer)
                      => vecs'[u].data.buffer = NullPtr
           /\ \A u \in Vecs :
                  alive'[u] => Len(Slots(heap', vecs'[u])) = CapacityOf(vecs', u)
           /\ Cardinality(Allocated(heap')) + last'.frees
                  = Cardinality(Allocated(heap)) + last'.allocs
                      - (IF last'.why = "alloc" THEN 1 ELSE 0)
           /\ last'.op = "~Vector"
                  => (/\ vecs[last'.v].data.buffer \notin Allocated(heap')
                      /\ last'.frees = Cardinality({vecs[last'.v].data.buffer} \ {NullPtr})))]_vars

\* C17 witness: the last constructed vector was destroyed, its block was
\* released and no block remains allocated.
C17_Witness ==
    /\ last.op = "~Vector"
    /\ last.frees = 1
    /\ \A v \in Vecs : ~alive[v]
    /\ Allocated(heap) = {}

\* C18: when a PushBack or Insert that must reallocate throws, every element
\* it constructed in the new block has been destroyed by the time the block
\* is released: no live element is released with its block.
C18_FailedGrowthDestroysNewElements ==
    [][(/\ last'.op \in {"PushBack", "Insert"}
        /\ last'.outcome = "throw"
        /\ WasFull(last'.v))
       => last'.lost = 0]_vars

\* The constructed RawMemory objects that hold block b.
Holders(rs, b) == {x \in Raws : rs[x].alive /\ rs[x].data.buffer = b}

\* C19: after RawMemory move-construction, and after move-assignment between
\* two objects, the source has a null buffer and capacity 0 and the block
\* the assignment target held is released; after every call each block is
\* held by at most one RawMemory and every held block is allocated; and a
\* RawMemory of capacity 0 has a null buffer.
C19_RawMemoryOwnsExclusively ==
    [][last'.op \in {"RawMemory", "RawMemorySized", "RawMemoryMove", "RawMoveAssign",
                     "RawSwap", "~RawMemory"}
       => (/\ (last'.op \in {"RawMemoryMove", "RawMoveAssign"} /\ last'.v # last'.arg)
                  => (/\ raws'[last'.arg].data = EmptyRaw
                      /\ raws'[last'.v].data = raws[last'.arg].data
                      /\ raws[last'.v].data.buffer \notin Allocated(heap'))
           /\ \A b \in Blocks :
                  /\ Cardinality(Holders(raws', b)) <= 1
                  /\ Holders(raws', b) # {} => b \in Allocated(heap')
           /\ \A x \in Raws :
                  (raws'[x].alive /\ raws'[x].data.capacity = 0)
                      => raws'[x].data.buffer = NullPtr)]_vars

\* C20: a PushBack or Insert that is given a reference to the element of
\* index i of the vector itself and returns leaves, at the index of the new
\* element, the value that element i had before the call.
C20_SelfReferenceInsertsOldValue ==
    [][(/\ last'.op \in {"PushBackRef", "InsertRef"}
        /\ last'.outcome = "ok")
       => LET at == IF last'.op = "PushBackRef" THEN vecs[last'.v].size ELSE last'.arg
          IN ContentsIn(heap', vecs'[last'.v])[at + 1] = Contents(last'.v)[last'.val + 1]]_vars

====
